---- MODULE Spec2Model ----
(***************************************************************************)
(* Model of src/design/NCDS.hpp: the Color primitive with its two          *)
(* constructors, the FontWeight / FontSpec primitives, the palette, the    *)
(* typography table and the component tokens, together with a client that  *)
(* calls the constructors and reads the named constants.                   *)
(*                                                                         *)
(* uint32_t values are 32-bit vectors (bit 0 is the least significant),    *)
(* so that the shifts and masks of Color::fromHex are computed as the code *)
(* computes them; uint8_t values are integers in 0..255.                   *)
(***************************************************************************)
EXTENDS Integers, Sequences, FiniteSets

(* ----------------------------- bounds ---------------------------------- *)

\* alpha arguments are drawn from 0..MaxAlpha and 255-MaxAlpha..255
MaxAlpha == 0

\* bits 24..31 of a hex argument are drawn from 0..MaxHi and 255-MaxHi..255
MaxHi == 0

(* ------------------------ machine integers ----------------------------- *)

Bits32 == 0..31

\* the uint32_t with the value n, for 0 <= n < 2^31 (an integer literal)
Lit(n) == [i \in Bits32 |-> IF i <= 30 THEN (n \div (2 ^ i)) % 2 ELSE 0]

\* operator>> on uint32_t
Shr(w, n) == [i \in Bits32 |-> IF i + n <= 31 THEN w[i + n] ELSE 0]

\* operator& on uint32_t
And(w, m) == [i \in Bits32 |-> w[i] * m[i]]

\* conversion of a uint32_t argument to a uint8_t parameter (keeps bits 0..7)
U8(w) ==
    w[0] + 2 * w[1] + 4 * w[2] + 8 * w[3]
         + 16 * w[4] + 32 * w[5] + 64 * w[6] + 128 * w[7]

(* ----------------------------- Color ----------------------------------- *)

\* default of the parameter alpha of Color(red, green, blue, alpha)
ColorDefaultAlpha == 255

\* default of the parameter alpha of Color::fromHex(hex, alpha)
fromHexDefaultAlpha == 255

Color(red, green, blue, alpha) ==
    [r |-> red, g |-> green, b |-> blue, a |-> alpha]

\* Color(red, green, blue) with alpha defaulted
ColorDefault(red, green, blue) == Color(red, green, blue, ColorDefaultAlpha)

\* fromHex with the green and blue shifts exchanged
fromHexSwapped(hex, alpha) ==
    Color(U8(And(Shr(hex, 16), Lit(255))),
          U8(And(hex, Lit(255))),
          U8(And(Shr(hex, 8), Lit(255))),
          alpha)

\* fromHex reading a 0xRRGGBBxx layout: every shift is 8 too large
fromHexShifted(hex, alpha) ==
    Color(U8(And(Shr(hex, 24), Lit(255))),
          U8(And(Shr(hex, 16), Lit(255))),
          U8(And(Shr(hex, 8), Lit(255))),
          alpha)

fromHex(hex, alpha) ==
    Color(U8(And(Shr(hex, 16), Lit(255))),
          U8(And(Shr(hex, 8), Lit(255))),
          U8(And(hex, Lit(255))),
          alpha)

\* fromHex(hex) with alpha defaulted to 0 (transparent) instead of 255
fromHexDefaultTransparent(hex) == fromHex(hex, 0)

\* Color::fromHex(hex) with alpha defaulted
fromHexDefault(hex) == fromHex(hex, fromHexDefaultAlpha)

(* ------------------------- FontWeight, FontSpec ------------------------ *)

FontWeight == [Regular |-> 400, Medium |-> 500, Bold |-> 700]

FontSpec(fam, sz, lh, w) ==
    [family |-> fam, size |-> sz, lineHeight |-> lh, weight |-> w]

(* ----------------------------- palette --------------------------------- *)

\* Red500 with the last two hex digits exchanged (0xEC1D13)
Red500Typo == fromHexDefault(Lit(15473939))

Red500 == fromHexDefault(Lit(15473969))    \* 0xEC1D31
\* Red600 with the green byte of Red700 (0xCF1322)
Red600Typo == fromHexDefault(Lit(13570850))

Red600 == fromHexDefault(Lit(13571874))    \* 0xCF1722
Red700 == fromHexDefault(Lit(11997980))    \* 0xB7131C

White == fromHexDefault(Lit(16777215))     \* 0xFFFFFF
Gray50 == fromHexDefault(Lit(16317180))    \* 0xF8FAFC
Gray100 == fromHexDefault(Lit(15857145))   \* 0xF1F5F9
Gray200 == fromHexDefault(Lit(14870768))   \* 0xE2E8F0
Gray300 == fromHexDefault(Lit(13358561))   \* 0xCBD5E1
Gray400 == fromHexDefault(Lit(9741240))    \* 0x94A3B8
\* Gray500 with a wrong green digit (0x64A48B)
Gray500Typo == fromHexDefault(Lit(6595723))

Gray500 == fromHexDefault(Lit(6583435))    \* 0x64748B
Gray600 == fromHexDefault(Lit(4674921))    \* 0x475569
Gray700 == fromHexDefault(Lit(3359061))    \* 0x334155
Gray800 == fromHexDefault(Lit(1976635))    \* 0x1E293B
Gray900 == fromHexDefault(Lit(988970))     \* 0x0F172A
Black == fromHexDefault(Lit(0))            \* 0x000000

Green500 == fromHexDefault(Lit(2278750))   \* 0x22C55E
Orange500 == fromHexDefault(Lit(16347926)) \* 0xF97316
Blue500 == fromHexDefault(Lit(3900150))    \* 0x3B82F6
Violet500 == fromHexDefault(Lit(9133302))  \* 0x8B5CF6

\* namespace palette
palette ==
    [Red500 |-> Red500, Red600 |-> Red600, Red700 |-> Red700,
     White |-> White, Gray50 |-> Gray50, Gray100 |-> Gray100,
     Gray200 |-> Gray200, Gray300 |-> Gray300, Gray400 |-> Gray400,
     Gray500 |-> Gray500, Gray600 |-> Gray600, Gray700 |-> Gray700,
     Gray800 |-> Gray800, Gray900 |-> Gray900, Black |-> Black,
     Green500 |-> Green500, Orange500 |-> Orange500,
     Blue500 |-> Blue500, Violet500 |-> Violet500]

\* the neutrals in their order of definition
GrayRamp ==
    <<"White", "Gray50", "Gray100", "Gray200", "Gray300", "Gray400",
      "Gray500", "Gray600", "Gray700", "Gray800", "Gray900", "Black">>

(* ---------------------------- typography ------------------------------- *)

FontFamilySans == "Commerce Sans"
FontFamilyInter == "Inter"

DisplayXL_Bold == FontSpec(FontFamilySans, 48, 60, FontWeight.Bold)
DisplayLG_Bold == FontSpec(FontFamilySans, 36, 44, FontWeight.Bold)
\* DisplayMD_Bold carrying FontWeight::Medium
DisplayMD_Medium == FontSpec(FontFamilySans, 30, 38, FontWeight.Medium)

DisplayMD_Bold == FontSpec(FontFamilySans, 30, 38, FontWeight.Bold)

TextLG_Regular == FontSpec(FontFamilyInter, 18, 28, FontWeight.Regular)
TextMD_Regular == FontSpec(FontFamilyInter, 16, 24, FontWeight.Regular)
TextSM_Regular == FontSpec(FontFamilyInter, 14, 20, FontWeight.Regular)
TextXS_Regular == FontSpec(FontFamilyInter, 12, 18, FontWeight.Regular)

\* namespace typography
typography ==
    [FontFamilySans |-> FontFamilySans, FontFamilyInter |-> FontFamilyInter,
     DisplayXL_Bold |-> DisplayXL_Bold, DisplayLG_Bold |-> DisplayLG_Bold,
     DisplayMD_Bold |-> DisplayMD_Bold,
     TextLG_Regular |-> TextLG_Regular, TextMD_Regular |-> TextMD_Regular,
     TextSM_Regular |-> TextSM_Regular, TextXS_Regular |-> TextXS_Regular]

(* ------------------------------ tokens --------------------------------- *)

\* aggregate initialisation: the i-th initialiser goes to the i-th declared field
Aggregate(fields, inits) ==
    [f \in {fields[i] : i \in 1..Len(fields)} |->
        inits[CHOOSE i \in 1..Len(fields) : fields[i] = f]]

BorderRadiusSmall == 4
BorderRadiusMedium == 8
BorderRadiusLarge == 12

ButtonTheme ==
    <<"background", "text", "border", "backgroundHover", "backgroundPressed">>

\* ButtonPrimary with the hover and pressed initialisers exchanged
ButtonPrimarySwapped ==
    Aggregate(ButtonTheme, <<Red500, White, Red500, Red700, Red600>>)

ButtonPrimary ==
    Aggregate(ButtonTheme, <<Red500, White, Red500, Red600, Red700>>)

ButtonSecondary ==
    Aggregate(ButtonTheme, <<White, Gray700, Gray300, Gray50, Gray100>>)

ButtonHeightMD == 44

\* ButtonHeightSM taller than ButtonHeightMD
ButtonHeightSMTall == ButtonHeightMD + 2

ButtonHeightSM == 36

ButtonHeightXS == 30

InputTheme ==
    <<"background", "text", "placeholder", "border", "borderFocus",
      "borderError">>

InputDefault ==
    Aggregate(InputTheme, <<White, Gray900, Gray400, Gray200, Red500, Red500>>)

InputHeight == 44

ToggleTheme == <<"trackOff", "trackOn", "thumb">>

ToggleSwitch == Aggregate(ToggleTheme, <<Gray300, Red500, White>>)

ControlTheme == <<"borderUnchecked", "backgroundChecked", "checkmark">>

CheckboxDefault == Aggregate(ControlTheme, <<Gray300, Red500, White>>)

\* namespace tokens
tokens ==
    [BorderRadiusSmall |-> BorderRadiusSmall,
     BorderRadiusMedium |-> BorderRadiusMedium,
     BorderRadiusLarge |-> BorderRadiusLarge,
     ButtonPrimary |-> ButtonPrimary, ButtonSecondary |-> ButtonSecondary,
     ButtonHeightMD |-> ButtonHeightMD, ButtonHeightSM |-> ButtonHeightSM,
     ButtonHeightXS |-> ButtonHeightXS,
     InputDefault |-> InputDefault, InputHeight |-> InputHeight,
     ToggleSwitch |-> ToggleSwitch, CheckboxDefault |-> CheckboxDefault]

\* namespace nzt::gui::design: every named constant, as initialised
design == [palette |-> palette, typography |-> typography, tokens |-> tokens]

(* ------------------------------ inputs --------------------------------- *)

EdgeBytes(k) == (0..k) \cup ((255 - k)..255)

\* uint8_t arguments handed to the constructors as red, green and blue
ChannelArgs == {0, 255}

\* uint8_t arguments handed to the constructors as alpha
AlphaArgs == EdgeBytes(MaxAlpha)

\* the low 24 bits of the hex arguments: the literals of the brand reds and
\* of the ends of the gray ramp, 0x010203, and 0xFF0000, 0x00FF00, 0x0000FF
LowArgs ==
    {15473969, 13571874, 11997980, 16777215, 0, 66051, 16711680, 65280, 255}

\* the uint32_t with bits 24..31 = hi and bits 0..23 = lo
Pack(hi, lo) ==
    [i \in Bits32 |-> IF i < 24 THEN (lo \div (2 ^ i)) % 2
                                ELSE (hi \div (2 ^ (i - 24))) % 2]

\* uint32_t arguments handed to Color::fromHex
HexArgs == {Pack(hi, lo) : hi \in EdgeBytes(MaxHi), lo \in LowArgs}

\* the names of the constants, as <<namespace, name>>
Names == {<<ns, n>> : ns \in DOMAIN design, n \in DOMAIN palette
                         \cup DOMAIN typography \cup DOMAIN tokens}
NamesOf(ns) == {nm \in Names : nm[1] = ns /\ nm[2] \in DOMAIN design[ns]}
AllNames == NamesOf("palette") \cup NamesOf("typography") \cup NamesOf("tokens")

(* ------------------------------ state ---------------------------------- *)

VARIABLES
    catalog,    \* the constants in memory: namespace -> name -> value
    snapshot,   \* <<>> before the first read of a constant, then <<name, value>>
                \* of that read
    last        \* the last operation of the client and what it returned

vars == <<catalog, snapshot, last>>

NoWord == Lit(0)

Op(op, name, hex, red, green, blue, alpha, result) ==
    [op |-> op, name |-> name, hex |-> hex, red |-> red, green |-> green,
     blue |-> blue, alpha |-> alpha, result |-> result]

Init ==
    /\ catalog = design
    /\ snapshot = <<>>
    /\ last = Op("none", <<>>, NoWord, 0, 0, 0, 0, 0)

\* Color(red, green, blue, alpha)
CallColor ==
    \E red \in ChannelArgs, green \in ChannelArgs, blue \in ChannelArgs,
       alpha \in AlphaArgs :
        /\ last' = Op("Color4", <<>>, NoWord, red, green, blue, alpha,
                      Color(red, green, blue, alpha))
        /\ UNCHANGED <<catalog, snapshot>>

\* Color(red, green, blue)
CallColorDefault ==
    \E red \in ChannelArgs, green \in ChannelArgs, blue \in ChannelArgs :
        /\ last' = Op("Color3", <<>>, NoWord, red, green, blue, 0,
                      ColorDefault(red, green, blue))
        /\ UNCHANGED <<catalog, snapshot>>

\* Color::fromHex(hex, alpha)
CallFromHex ==
    \E hex \in HexArgs, alpha \in AlphaArgs :
        /\ last' = Op("fromHex2", <<>>, hex, 0, 0, 0, alpha, fromHex(hex, alpha))
        /\ UNCHANGED <<catalog, snapshot>>

\* Color::fromHex(hex)
CallFromHexDefault ==
    \E hex \in HexArgs :
        /\ last' = Op("fromHex1", <<>>, hex, 0, 0, 0, 0, fromHexDefault(hex))
        /\ UNCHANGED <<catalog, snapshot>>

\* a read that leaves a palette constant it has read transparent, as a read of
\* a mutable global that is moved from would
ReadWriting(nm) ==
    /\ last' = Op("read", nm, NoWord, 0, 0, 0, 0, catalog[nm[1]][nm[2]])
    /\ snapshot' =
          IF snapshot = <<>> THEN <<nm, catalog[nm[1]][nm[2]]>> ELSE snapshot
    /\ catalog' =
          IF nm[1] = "palette"
          THEN [catalog EXCEPT !["palette"][nm[2]].a = 0]
          ELSE catalog

\* a read of a named constant (a constexpr object: the read writes nothing);
\* the first read of the run is captured
Read(nm) ==
    /\ last' = Op("read", nm, NoWord, 0, 0, 0, 0, catalog[nm[1]][nm[2]])
    /\ snapshot' =
          IF snapshot = <<>> THEN <<nm, catalog[nm[1]][nm[2]]>> ELSE snapshot
    /\ UNCHANGED catalog

ReadPalette == \E nm \in NamesOf("palette") : Read(nm)

ReadTypography == \E nm \in NamesOf("typography") : Read(nm)

ReadTokens == \E nm \in NamesOf("tokens") : Read(nm)

Next ==
    \/ CallColor
    \/ CallColorDefault
    \/ CallFromHex
    \/ CallFromHexDefault
    \/ ReadPalette
    \/ ReadTypography
    \/ ReadTokens

Spec == Init /\ [][Next]_vars

(* --------------------------- properties -------------------------------- *)

\* the value of the low n bits of a uint32_t, n <= 24
RECURSIVE Value(_, _)
Value(w, n) == IF n = 0 THEN 0 ELSE Value(w, n - 1) + w[n - 1] * (2 ^ (n - 1))

Is24Bit(w) == \A i \in 24..31 : w[i] = 0

IsChannel(x) == x \in 0..255

IsColor(c) == IsChannel(c.r) /\ IsChannel(c.g) /\ IsChannel(c.b) /\ IsChannel(c.a)

RGB(c) == <<c.r, c.g, c.b>>

RGBA(x, y, z, w) == [r |-> x, g |-> y, b |-> z, a |-> w]

\* C1: for a 24-bit hex h and any alpha a, fromHex(h, a) has its r, g, b the
\* three bytes of h from the most significant down (h = r * 2^16 + g * 2^8 + b
\* with each in 0..255) and its a equal to a; fromHex(0xEC1D31) is
\* Color(236, 29, 49, 255).
C1_FromHexDecomposes ==
    /\ (last.op = "fromHex2" /\ Is24Bit(last.hex)) =>
          /\ IsColor(last.result)
          /\ last.result.r * 65536 + last.result.g * 256 + last.result.b
                = Value(last.hex, 24)
          /\ last.result.a = last.alpha
    /\ (last.op = "fromHex1" /\ Is24Bit(last.hex) /\ Value(last.hex, 24) = 15473969) =>
          last.result = RGBA(236, 29, 49, 255)

C1_Witness ==
    /\ last.op = "fromHex2"
    /\ Is24Bit(last.hex)
    /\ Value(last.hex, 24) = 15473969
    /\ last.alpha = 0
    /\ last.result = RGBA(236, 29, 49, 0)

\* C2: fromHex is defined on every 32-bit hex and ignores bits 24..31:
\* fromHex(hex, a) = fromHex(hex & 0xFFFFFF, a), with every channel in 0..255.
C2_FromHexIgnoresHighBits ==
    last.op \in {"fromHex2", "fromHex1"} =>
        /\ IsColor(last.result)
        /\ RGB(last.result) = RGB(fromHex(And(last.hex, Lit(16777215)), last.alpha))
        /\ last.op = "fromHex2" =>
              last.result = fromHex(And(last.hex, Lit(16777215)), last.alpha)

C2_Witness ==
    /\ last.op = "fromHex2"
    /\ \A i \in 24..31 : last.hex[i] = 1
    /\ Value(last.hex, 24) = 15473969
    /\ last.result = RGBA(236, 29, 49, last.alpha)

\* C3: without an alpha argument the Color has a = 255, for Color(r, g, b) and
\* for fromHex(hex), and its r, g, b are those of the call with alpha passed.
C3_DefaultAlpha ==
    /\ last.op = "Color3" =>
          /\ last.result.a = 255
          /\ \A a \in AlphaArgs :
                RGB(last.result) = RGB(Color(last.red, last.green, last.blue, a))
    /\ last.op = "fromHex1" =>
          /\ last.result.a = 255
          /\ \A a \in AlphaArgs : RGB(last.result) = RGB(fromHex(last.hex, a))

C3_Witness ==
    /\ last.op = "fromHex1"
    /\ Value(last.hex, 24) = 66051
    /\ last.result = RGBA(1, 2, 3, 255)

\* the bytes of the hex literal of each palette constant, read off its digits
PaletteBytes ==
    [Red500 |-> <<236, 29, 49>>, Red600 |-> <<207, 23, 34>>,
     Red700 |-> <<183, 19, 28>>,
     White |-> <<255, 255, 255>>, Gray50 |-> <<248, 250, 252>>,
     Gray100 |-> <<241, 245, 249>>, Gray200 |-> <<226, 232, 240>>,
     Gray300 |-> <<203, 213, 225>>, Gray400 |-> <<148, 163, 184>>,
     Gray500 |-> <<100, 116, 139>>, Gray600 |-> <<71, 85, 105>>,
     Gray700 |-> <<51, 65, 85>>, Gray800 |-> <<30, 41, 59>>,
     Gray900 |-> <<15, 23, 42>>, Black |-> <<0, 0, 0>>,
     Green500 |-> <<34, 197, 94>>, Orange500 |-> <<249, 115, 22>>,
     Blue500 |-> <<59, 130, 246>>, Violet500 |-> <<139, 92, 246>>]

\* C4: each of the 19 palette constants has r, g, b equal to the bytes of its
\* hex literal and a = 255, in memory and as returned by a read.
C4_PaletteMatchesLiterals ==
    /\ DOMAIN catalog.palette = DOMAIN PaletteBytes
    /\ Cardinality(DOMAIN catalog.palette) = 19
    /\ \A n \in DOMAIN catalog.palette :
          /\ RGB(catalog.palette[n]) = PaletteBytes[n]
          /\ catalog.palette[n].a = 255
    /\ (last.op = "read" /\ last.name[1] = "palette") =>
          /\ RGB(last.result) = PaletteBytes[last.name[2]]
          /\ last.result.a = 255

C4_Witness ==
    /\ last.op = "read"
    /\ last.name = <<"palette", "Red500">>
    /\ last.result = RGBA(236, 29, 49, 255)

\* C5: every field of every theme aggregate equals the palette constant it is
\* initialised from, with the initialisers taken in declaration order.
C5_ThemesReferencePalette ==
    LET p == catalog.palette
        t == catalog.tokens
    IN  /\ t.ButtonPrimary =
              [background |-> p.Red500, text |-> p.White, border |-> p.Red500,
               backgroundHover |-> p.Red600, backgroundPressed |-> p.Red700]
        /\ t.ButtonPrimary.border = t.ButtonPrimary.background
        /\ t.ButtonSecondary =
              [background |-> p.White, text |-> p.Gray700, border |-> p.Gray300,
               backgroundHover |-> p.Gray50, backgroundPressed |-> p.Gray100]
        /\ t.InputDefault =
              [background |-> p.White, text |-> p.Gray900,
               placeholder |-> p.Gray400, border |-> p.Gray200,
               borderFocus |-> p.Red500, borderError |-> p.Red500]
        /\ t.ToggleSwitch =
              [trackOff |-> p.Gray300, trackOn |-> p.Red500, thumb |-> p.White]
        /\ t.CheckboxDefault =
              [borderUnchecked |-> p.Gray300, backgroundChecked |-> p.Red500,
               checkmark |-> p.White]

C5_Witness ==
    /\ last.op = "read"
    /\ last.name = <<"tokens", "ButtonPrimary">>
    /\ last.result.backgroundHover = RGBA(207, 23, 34, 255)
    /\ last.result.backgroundPressed = RGBA(183, 19, 28, 255)

\* C6: the layout scalars have their documented magnitudes and strict order:
\* radii 4 < 8 < 12, button heights 30 < 36 < 44, InputHeight = ButtonHeightMD.
C6_LayoutScalars ==
    LET t == catalog.tokens
    IN  /\ t.BorderRadiusSmall = 4
        /\ t.BorderRadiusMedium = 8
        /\ t.BorderRadiusLarge = 12
        /\ t.BorderRadiusSmall < t.BorderRadiusMedium
        /\ t.BorderRadiusMedium < t.BorderRadiusLarge
        /\ t.ButtonHeightXS = 30
        /\ t.ButtonHeightSM = 36
        /\ t.ButtonHeightMD = 44
        /\ t.ButtonHeightXS < t.ButtonHeightSM
        /\ t.ButtonHeightSM < t.ButtonHeightMD
        /\ t.InputHeight = 44
        /\ t.InputHeight = t.ButtonHeightMD

C6_Witness ==
    /\ last.op = "read"
    /\ last.name = <<"tokens", "ButtonHeightSM">>
    /\ last.result = 36

C8_FontWeights ==
    LET ty == catalog.typography
    IN  /\ DOMAIN FontWeight = {"Regular", "Medium", "Bold"}
        /\ FontWeight.Regular = 400
        /\ FontWeight.Medium = 500
        /\ FontWeight.Bold = 700
        /\ \A n \in {"DisplayXL_Bold", "DisplayLG_Bold", "DisplayMD_Bold"} :
              ty[n].weight = 700
        /\ \A n \in {"TextLG_Regular", "TextMD_Regular", "TextSM_Regular",
                     "TextXS_Regular"} :
              ty[n].weight = 400
        /\ DOMAIN ty = {"FontFamilySans", "FontFamilyInter",
                        "DisplayXL_Bold", "DisplayLG_Bold", "DisplayMD_Bold",
                        "TextLG_Regular", "TextMD_Regular", "TextSM_Regular",
                        "TextXS_Regular"}

C8_Witness ==
    /\ last.op = "read"
    /\ last.name = <<"typography", "DisplayMD_Bold">>
    /\ last.result.weight = 700

Darker(c, d) == c.r > d.r /\ c.g > d.g /\ c.b > d.b

\* C9: the brand reds go from light to dark, Red500 > Red600 > Red700 in each
\* of r, g, b, and ButtonPrimary takes background, backgroundHover,
\* backgroundPressed from them in that order.
C9_RedsLightToDark ==
    LET p == catalog.palette
        bp == catalog.tokens.ButtonPrimary
    IN  /\ Darker(p.Red500, p.Red600)
        /\ Darker(p.Red600, p.Red700)
        /\ bp.background = p.Red500
        /\ bp.backgroundHover = p.Red600
        /\ bp.backgroundPressed = p.Red700
        /\ Darker(bp.background, bp.backgroundHover)
        /\ Darker(bp.backgroundHover, bp.backgroundPressed)

C9_Witness ==
    /\ last.op = "read"
    /\ last.name = <<"palette", "Red600">>
    /\ last.result = RGBA(207, 23, 34, 255)

\* C10: the gray ramp has exactly 12 steps, White, Gray50, ..., Gray900, Black,
\* from (255,255,255) to (0,0,0); from each step to the next no channel
\* increases and r + g + b strictly decreases.
C10_GrayRamp ==
    LET p == catalog.palette
        step(i) == p[GrayRamp[i]]
        total(c) == c.r + c.g + c.b
    IN  /\ GrayRamp = <<"White", "Gray50", "Gray100", "Gray200", "Gray300",
                        "Gray400", "Gray500", "Gray600", "Gray700", "Gray800",
                        "Gray900", "Black">>
        /\ Len(GrayRamp) = 12
        /\ RGB(step(1)) = <<255, 255, 255>>
        /\ RGB(step(12)) = <<0, 0, 0>>
        /\ \A i \in 1..11 :
              /\ step(i + 1).r <= step(i).r
              /\ step(i + 1).g <= step(i).g
              /\ step(i + 1).b <= step(i).b
              /\ total(step(i + 1)) < total(step(i))

C10_Witness ==
    /\ last.op = "read"
    /\ last.name = <<"palette", "Gray500">>
    /\ last.result = RGBA(100, 116, 139, 255)

====
